---- MODULE Spec2Model ----
(***************************************************************************)
(* Model of the round-robin doubles scheduler (lib/scheduler:              *)
(* generateSchedule and its helpers) and of the caller's roster            *)
(* preparation in app/page.tsx.                                            *)
(*                                                                         *)
(* One run of generateSchedule is a state machine                          *)
(*   Initializing -> RoundLoop -> Finished                                 *)
(* whose RoundLoop step is one iteration of the `for (round ...)` loop:    *)
(* pickRoundMatches against the current history, then either the break on  *)
(* an empty round or the commit of every selected match.                   *)
(***************************************************************************)
EXTENDS Integers, Sequences, FiniteSets, TLC

\* ---------------------------------------------------------------- bounds
\* longest roster drawn over {real name, "Bye"} in every arrangement
MaxRoster == 6
\* court counts 0..MaxCourts are drawn
MaxCourts == 2
\* number of "Bye" entries in the long rosters
PadByes == 32
MaxScoredRound == 1

\* ------------------------------------------------------- program constants
ByeName == "Bye"
RealName == "Ann"
MinPlayers == 4
PageMinCourts == 1
PageMaxCourts == 6
PageDefaultCourts == 2
RoundCeiling == 50
PartnerWeight == 5
OpponentWeight == 3

\* ---------------------------------------------------------------- strings
\* UTF-16 code units of the characters that occur in a player id
Dash == 45
Underscore == 95
Zero == 48

RECURSIVE Digits(_)
\* decimal rendering of the roster index in the template `${index}-${name}`
Digits(n) ==
  IF n < 10 THEN << Zero + n >>
  ELSE Digits(n \div 10) \o << Zero + (n % 10) >>

NameChars(name) ==
  IF name = ByeName THEN << 66, 121, 101 >> ELSE << 65, 110, 110 >>

\* the id string of a player: `${index}-${name}`
IdChars(id) == Digits(id[1]) \o << Dash >> \o NameChars(id[2])

\* three-way comparison of two strings by the first code unit in which they
\* differ; a proper prefix sorts first.  Negative, zero or positive like
\* localeCompare.  (Two ids of one roster differ within their index digits
\* or at the dash that ends the shorter index, and a dash sorts before a
\* digit both by code unit and in the collation localeCompare uses.)
StrCompare(s, t) ==
  LET n == IF Len(s) <= Len(t) THEN Len(s) ELSE Len(t)
      diff == { k \in 1..n : s[k] # t[k] }
  IN  IF diff = {}
      THEN (IF Len(s) < Len(t) THEN -1 ELSE IF Len(s) > Len(t) THEN 1 ELSE 0)
      ELSE LET k == CHOOSE i \in diff : \A j \in diff : i <= j
           IN  IF s[k] < t[k] THEN -1 ELSE 1

RECURSIVE InsertSorted(_, _)
InsertSorted(x, sorted) ==
  IF sorted = << >> THEN << x >>
  ELSE IF StrCompare(x, Head(sorted)) < 0 THEN << x >> \o sorted
  ELSE << Head(sorted) >> \o InsertSorted(x, Tail(sorted))

RECURSIVE SortStrings(_)
\* Array.prototype.sort() without comparator: ascending by code units
SortStrings(strs) ==
  IF strs = << >> THEN << >>
  ELSE InsertSorted(Head(strs), SortStrings(Tail(strs)))

\* a sequence given by a rule, held as an array of its elements
Array(f) == f \o << >>

RECURSIVE Join(_)
\* Array.prototype.join("_")
Join(strs) ==
  IF strs = << >> THEN << >>
  ELSE IF Len(strs) = 1 THEN strs[1]
  ELSE strs[1] \o << Underscore >> \o Join(Tail(strs))

\* ---------------------------------------------------------------- players
\* names.map((name, index) => ({ id: `${index}-${name}`, name }))
toPlayers(names) ==
  Array([ k \in 1..Len(names) |->
            [ id |-> << k - 1, names[k] >>, name |-> names[k] ] ])

\* players.length % 2 === 0 ? players : [...players, "Bye"]
ensureEvenPlayers(names) ==
  IF Len(names) % 2 = 0 THEN names ELSE Append(names, ByeName)

\* match.flat(): the four players of [teamA, teamB]
Flat(match) == << match[1][1], match[1][2], match[2][1], match[2][2] >>

\* players.map((p) => p.id).sort().join("_")
getKey(ps) ==
  Join(SortStrings(Array([ k \in 1..Len(ps) |-> IdChars(ps[k].id) ])))

\* ---------------------------------------------------------------- history
\* The two-level maps Record<id, Record<id, number>> are keyed here by the
\* ordered pair << a.id, b.id >>; an absent key reads as 0.
\* an increment that starts a fresh inner record for a every time
incrementCount_FreshRow(map, a, b) ==
  LET key == << a.id, b.id >>
      old == IF key \in DOMAIN map THEN map[key] ELSE 0
      kept == { k \in DOMAIN map : k[1] # a.id }
  IN  (key :> old + 1) @@ [ k \in kept |-> map[k] ]

incrementCount(map, a, b) ==
  LET key == << a.id, b.id >>
      old == IF key \in DOMAIN map THEN map[key] ELSE 0
  IN  (key :> old + 1) @@ map

getCount(map, a, b) ==
  IF << a.id, b.id >> \in DOMAIN map THEN map[<< a.id, b.id >>] ELSE 0

\* playCounts[id] || 0
getPlays(playCounts, p) ==
  IF p.id \in DOMAIN playCounts THEN playCounts[p.id] ELSE 0

incrementPlays(playCounts, p) ==
  (p.id :> getPlays(playCounts, p) + 1) @@ playCounts

\* {}
EmptyMap == << >>

\* ------------------------------------------------------------ enumeration
\* the index pairs (i, j) with i < j < n in the order of the nested loops
\*   for (i = 0; i < n; i += 1) for (j = i + 1; j < n; j += 1)
\* (1-based here)
LoopPairs(n) ==
  LET grid == Array([ k \in 1..(n * n) |->
                        << ((k - 1) \div n) + 1, ((k - 1) % n) + 1 >> ])
      Upper(pr) == pr[1] < pr[2]
  IN  SelectSeq(grid, Upper)

\* an enumeration whose filter lets the first player of the roster through
generateAllTeams_FilterFromSecond(ps) ==
  LET NotBye(p) == p.name # ByeName \/ p.id[1] = 0
      filtered == SelectSeq(ps, NotBye)
      pairs == LoopPairs(Len(filtered))
  IN  Array([ k \in 1..Len(pairs) |->
                << filtered[pairs[k][1]], filtered[pairs[k][2]] >> ])

\* an enumeration that puts the later player of the roster first
generateAllTeams_LaterFirst(ps) ==
  LET NotBye(p) == p.name # ByeName
      filtered == SelectSeq(ps, NotBye)
      pairs == LoopPairs(Len(filtered))
  IN  Array([ k \in 1..Len(pairs) |->
                << filtered[pairs[k][2]], filtered[pairs[k][1]] >> ])

generateAllTeams(ps) ==
  LET NotBye(p) == p.name # ByeName
      filtered == SelectSeq(ps, NotBye)
      pairs == LoopPairs(Len(filtered))
  IN  Array([ k \in 1..Len(pairs) |->
                << filtered[pairs[k][1]], filtered[pairs[k][2]] >> ])

\* ---------------------------------------------------------------- scoring
\* a scorer that leaves the play counts out
scoreMatch_NoSitBalance(teamA, teamB, pCounts, oCounts, plCounts) ==
    ( getCount(pCounts, teamA[1], teamA[2]) + getCount(pCounts, teamA[2], teamA[1])
    + getCount(pCounts, teamB[1], teamB[2]) + getCount(pCounts, teamB[2], teamB[1]) )
      * PartnerWeight
  + ( getCount(oCounts, teamA[1], teamB[1]) + getCount(oCounts, teamA[1], teamB[2])
    + getCount(oCounts, teamA[2], teamB[1]) + getCount(oCounts, teamA[2], teamB[2])
    + getCount(oCounts, teamB[1], teamA[1]) + getCount(oCounts, teamB[1], teamA[2])
    + getCount(oCounts, teamB[2], teamA[1]) + getCount(oCounts, teamB[2], teamA[2]) )
      * OpponentWeight

\* a scorer that leaves the partner counts out
scoreMatch_NoPartnerPenalty(teamA, teamB, pCounts, oCounts, plCounts) ==
    ( getCount(oCounts, teamA[1], teamB[1]) + getCount(oCounts, teamA[1], teamB[2])
    + getCount(oCounts, teamA[2], teamB[1]) + getCount(oCounts, teamA[2], teamB[2])
    + getCount(oCounts, teamB[1], teamA[1]) + getCount(oCounts, teamB[1], teamA[2])
    + getCount(oCounts, teamB[2], teamA[1]) + getCount(oCounts, teamB[2], teamA[2]) )
      * OpponentWeight
  + getPlays(plCounts, teamA[1]) + getPlays(plCounts, teamA[2])
  + getPlays(plCounts, teamB[1]) + getPlays(plCounts, teamB[2])

scoreMatch(teamA, teamB, pCounts, oCounts, plCounts) ==
  LET partnerPenalty ==
          getCount(pCounts, teamA[1], teamA[2])
        + getCount(pCounts, teamA[2], teamA[1])
        + getCount(pCounts, teamB[1], teamB[2])
        + getCount(pCounts, teamB[2], teamB[1])
      opponentPenalty ==
          getCount(oCounts, teamA[1], teamB[1])
        + getCount(oCounts, teamA[1], teamB[2])
        + getCount(oCounts, teamA[2], teamB[1])
        + getCount(oCounts, teamA[2], teamB[2])
        + getCount(oCounts, teamB[1], teamA[1])
        + getCount(oCounts, teamB[1], teamA[2])
        + getCount(oCounts, teamB[2], teamA[1])
        + getCount(oCounts, teamB[2], teamA[2])
      sitBalancePenalty ==
          getPlays(plCounts, teamA[1])
        + getPlays(plCounts, teamA[2])
        + getPlays(plCounts, teamB[1])
        + getPlays(plCounts, teamB[2])
  IN  partnerPenalty * PartnerWeight + opponentPenalty * OpponentWeight
        + sitBalancePenalty

\* a candidate filter that lets every pair of teams through
FourDistinct_Always(teamA, teamB) == TRUE

\* ids.size !== 4 -> continue
FourDistinct(teamA, teamB) ==
  Cardinality({ teamA[1].id, teamA[2].id, teamB[1].id, teamB[2].id }) = 4

\* an enumeration whose outer loop starts at the second team
Candidates_FromSecondTeam(tms, pCounts, oCounts, plCounts) ==
  LET pairs == LoopPairs(Len(tms))
      Keep(pr) == pr[1] > 1 /\ FourDistinct(tms[pr[1]], tms[pr[2]])
      kept == SelectSeq(pairs, Keep)
  IN  Array([ k \in 1..Len(kept) |->
          LET teamA == tms[kept[k][1]]
              teamB == tms[kept[k][2]]
          IN  [ match |-> << teamA, teamB >>,
                score |-> scoreMatch(teamA, teamB, pCounts, oCounts, plCounts),
                key   |-> getKey(Flat(<< teamA, teamB >>)),
                pos   |-> k ] ])

\* the candidate list of one round, in enumeration order; the canonical key
\* the comparator derives from a candidate and the candidate's position in
\* the list are carried with it
Candidates(tms, pCounts, oCounts, plCounts) ==
  LET pairs == LoopPairs(Len(tms))
      Keep(pr) == FourDistinct(tms[pr[1]], tms[pr[2]])
      kept == SelectSeq(pairs, Keep)
  IN  Array([ k \in 1..Len(kept) |->
          LET teamA == tms[kept[k][1]]
              teamB == tms[kept[k][2]]
          IN  [ match |-> << teamA, teamB >>,
                score |-> scoreMatch(teamA, teamB, pCounts, oCounts, plCounts),
                key   |-> getKey(Flat(<< teamA, teamB >>)),
                pos   |-> k ] ])

\* a comparator that sorts the scores descending
CompareCandidates_Descending(a, b) ==
  IF a.score # b.score THEN b.score - a.score
  ELSE StrCompare(a.key, b.key)

\* a comparator that looks at the scores only
CompareCandidates_ScoreOnly(a, b) ==
  a.score - b.score

\* (a, b) => a.score - b.score || getKey(a).localeCompare(getKey(b))
CompareCandidates(a, b) ==
  IF a.score # b.score THEN a.score - b.score
  ELSE StrCompare(a.key, b.key)

\* a sort that leaves the candidates as they were enumerated
SortCandidates_AsEnumerated(cands) ==
  cands

\* candidates.sort(comparator).  Array.prototype.sort is stable: of two
\* candidates the comparator calls equal, the one enumerated first stays
\* first.
SortCandidates(cands) ==
  LET Before(a, b) ==
        LET c == CompareCandidates(a, b)
        IN  c < 0 \/ (c = 0 /\ a.pos < b.pos)
  IN  SortSeq(cands, Before)

\* a greedy loop that breaks as soon as one more match is accepted than
\* there are courts
WalkDone_BreakLate(acc, courts) == Len(acc.best) > courts

\* if (best.length >= courtCount) break
WalkDone(acc, courts) == Len(acc.best) >= courts

\* a greedy loop without the conflict check
WalkStep_NoConflictCheck(candidate, courts, acc) ==
  IF WalkDone(acc, courts) THEN acc
  ELSE LET ids == { Flat(candidate.match)[k].id : k \in 1..4 }
       IN  [ best |-> Append(acc.best, candidate.match),
             used |-> acc.used \cup ids ]

\* a greedy loop that also marks the players of a rejected candidate as used
WalkStep_MarksRejected(candidate, courts, acc) ==
  IF WalkDone(acc, courts) THEN acc
  ELSE LET ids == { Flat(candidate.match)[k].id : k \in 1..4 }
       IN  IF ids \cap acc.used # {}
           THEN [ best |-> acc.best, used |-> acc.used \cup ids ]
           ELSE [ best |-> Append(acc.best, candidate.match),
                  used |-> acc.used \cup ids ]

\* the body of `for (const candidate of candidates)`; acc holds best and
\* used.  After the break nothing changes any more.
WalkStep(candidate, courts, acc) ==
  IF WalkDone(acc, courts) THEN acc
  ELSE LET ids == { Flat(candidate.match)[k].id : k \in 1..4 }
       IN  IF ids \cap acc.used # {} THEN acc
           ELSE [ best |-> Append(acc.best, candidate.match),
                  used |-> acc.used \cup ids ]

RECURSIVE WalkRange(_, _, _, _, _)
\* the greedy loop over candidates lo..hi of the sorted list, in order
WalkRange(cands, lo, hi, courts, acc) ==
  IF lo > hi THEN acc
  ELSE IF lo = hi THEN WalkStep(cands[lo], courts, acc)
  ELSE LET mid == (lo + hi) \div 2
           left == WalkRange(cands, lo, mid, courts, acc)
       IN  IF WalkDone(left, courts) THEN left   \* break
           ELSE WalkRange(cands, mid + 1, hi, courts, left)

Walk(cands, courts) ==
  WalkRange(cands, 1, Len(cands), courts, [ best |-> << >>, used |-> {} ]).best

\* a selector that treats 0 courts like computeTargetRounds does, as 1
pickRoundMatches_ClampCourts(tms, pCounts, oCounts, plCounts, courts) ==
  LET sorted == SortCandidates(Candidates(tms, pCounts, oCounts, plCounts))
  IN  [ candidates |-> sorted,
        best |-> Walk(sorted, IF courts >= 1 THEN courts ELSE 1) ]

\* the value returned is best; the local array candidates, as the sort left
\* it, is kept beside it (it does not exist when courtCount is 0)
pickRoundMatches(tms, pCounts, oCounts, plCounts, courts) ==
  IF courts = 0 THEN [ candidates |-> << >>, best |-> << >> ]
  ELSE LET sorted == SortCandidates(Candidates(tms, pCounts, oCounts, plCounts))
       IN  [ candidates |-> sorted, best |-> Walk(sorted, courts) ]

\* Math.ceil(a / b) for integers a >= 0, b >= 1
CeilDiv(a, b) == (a + b - 1) \div b

Max(a, b) == IF a >= b THEN a ELSE b
Min(a, b) == IF a <= b THEN a ELSE b

\* a target round count without the ceiling
computeTargetRounds_NoCeiling(playerCount, courts) ==
  Max(playerCount - 1, 1)
    + CeilDiv(Max(0, playerCount - MinPlayers), Max(courts, 1))

\* a target round count without the buffer for the players beyond 4
computeTargetRounds_NoBuffer(playerCount, courts) ==
  Min(Max(playerCount - 1, 1), RoundCeiling)

computeTargetRounds(playerCount, courts) ==
  LET base == Max(playerCount - 1, 1)
      buffer == CeilDiv(Max(0, playerCount - MinPlayers), Max(courts, 1))
  IN  Min(base + buffer, RoundCeiling)

\* ----------------------------------------------------------------- commit
\* a commit that takes the second member of the team as everybody's teammate
CommitPlayer_MateAlwaysSecond(h, player, team, other) ==
  LET mate == team[2]
  IN  [ partner  |-> incrementCount(h.partner, player, mate),
        opponent |-> incrementCount(incrementCount(h.opponent, player, other[1]),
                                    player, other[2]),
        plays    |-> incrementPlays(h.plays, player) ]

\* a commit that counts only the first member of the other team as opponent
CommitPlayer_OneOpponent(h, player, team, other) ==
  LET mate == IF team[1] = player THEN team[2] ELSE team[1]
  IN  [ partner  |-> incrementCount(h.partner, player, mate),
        opponent |-> incrementCount(h.opponent, player, other[1]),
        plays    |-> incrementPlays(h.plays, player) ]

\* team.forEach((player) => { playCounts++; partner++; opponent++ x 2 })
CommitPlayer(h, player, team, other) ==
  LET mate == IF team[1] = player THEN team[2] ELSE team[1]
  IN  [ partner  |-> incrementCount(h.partner, player, mate),
        opponent |-> incrementCount(incrementCount(h.opponent, player, other[1]),
                                    player, other[2]),
        plays    |-> incrementPlays(h.plays, player) ]

\* a commit that updates the history for the first member of a team only
CommitTeam_FirstMemberOnly(h, team, other) ==
  CommitPlayer(h, team[1], team, other)

CommitTeam(h, team, other) ==
  CommitPlayer(CommitPlayer(h, team[1], team, other), team[2], team, other)

\* the body of roundMatches.forEach((pair, index) => ...) for one pair
CommitMatch(h, pair) ==
  CommitTeam(CommitTeam(h, pair[1], pair[2]), pair[2], pair[1])

RECURSIVE CommitRoundMatches(_, _)
CommitRoundMatches(h, roundMatches) ==
  IF roundMatches = << >> THEN h
  ELSE CommitRoundMatches(CommitMatch(h, Head(roundMatches)), Tail(roundMatches))

\* records whose court is the 0-based position in the round
RoundRecords_CourtFromZero(rnd, roundMatches) ==
  Array([ k \in 1..Len(roundMatches) |->
            [ id    |-> << rnd + 1, k - 1 >>,
              round |-> rnd + 1,
              court |-> k - 1,
              teamA |-> roundMatches[k][1],
              teamB |-> roundMatches[k][2] ] ])

\* the Match records pushed for one round (round is the 0-based loop index)
RoundRecords(rnd, roundMatches) ==
  Array([ k \in 1..Len(roundMatches) |->
            [ id    |-> << rnd + 1, k - 1 >>,
              round |-> rnd + 1,
              court |-> k,
              teamA |-> roundMatches[k][1],
              teamB |-> roundMatches[k][2] ] ])

\* the round loop as a function: the records of rounds rnd + 1 onwards
\* appended to ms, from history h
RECURSIVE RunRounds(_, _, _, _, _, _)
RunRounds(tms, courts, total, rnd, h, ms) ==
  IF rnd >= total THEN ms
  ELSE LET roundMatches ==
             pickRoundMatches(tms, h.partner, h.opponent, h.plays, courts).best
       IN  IF Len(roundMatches) = 0 THEN ms
           ELSE RunRounds(tms, courts, total, rnd + 1,
                          CommitRoundMatches(h, roundMatches),
                          ms \o RoundRecords(rnd, roundMatches))

\* generateSchedule(players, courtCount) as the page calls it: the value the
\* call returns
generateSchedule(ps, courts) ==
  IF Len(ps) < MinPlayers THEN << >>
  ELSE LET tms == generateAllTeams(ps)
       IN  IF Len(tms) = 0 THEN << >>
           ELSE RunRounds(tms, courts, computeTargetRounds(Len(ps), courts), 0,
                          [ partner |-> EmptyMap, opponent |-> EmptyMap,
                            plays |-> EmptyMap ],
                          << >>)

\* ----------------------------------------------------------------- inputs
Names == { RealName, ByeName }

NameLists == UNION { [ 1..n -> Names ] : n \in 0..MaxRoster }

AllReal(n) == Array([ k \in 1..n |-> RealName ])
AllBye(n) == Array([ k \in 1..n |-> ByeName ])

\* the rosters of the scenarios: 4 players, 5 players (odd, the caller
\* appends the placeholder), 8 players
FourRoster == AllReal(4)
FiveRoster == AllReal(5)
EightRoster == AllReal(8)

\* rosters long enough for the round ceiling and for two-digit indices
LongRosters ==
  { AllReal(3) \o AllBye(PadByes) \o AllReal(2),
    AllReal(2) \o AllBye(PadByes) \o AllReal(2) }

\* generateSchedule accepts any roster; what the page hands to toPlayers is
\* ensureEvenPlayers(parseNames(...)), which NameLists contains for every
\* list of names shorter than MaxRoster
Rosters == NameLists \cup { EightRoster } \cup LongRosters

\* 7 players: the smallest roster whose play counts end up 2 apart
SevenRoster == AllReal(7)

\* the arguments of the calls: every roster with every court count, and the
\* 7 players with more courts than they can fill
Inputs ==
  (Rosters \X (0..MaxCourts)) \cup { << SevenRoster, MaxCourts + 1 >> }

\* the arguments of a call made between the first call and its repetition
OtherInputs == { << FourRoster, 1 >> }

\* ------------------------------------------------------------------ state
VARIABLES
  players,               \* argument of generateSchedule
  courtCount,            \* argument of generateSchedule
  state,                 \* "Initializing", "RoundLoop" or "Finished"
  totalRoundsRequested,
  teams,
  round,                 \* 0-based loop index
  partnerCounts,
  opponentCounts,
  playCounts,
  matches,               \* the result being accumulated / returned
  candidates,            \* pickRoundMatches' sorted array of the last selection
  call,                  \* 1 for the first call, 0 for a call with other
                         \* arguments after it, 2 for the first call repeated
                         \* at once, 3 for it repeated after the other call
  firstResult,           \* what the first call returned
  firstArgs,             \* the arguments of the first call
  watchedNames,          \* the page's roster field, as parseNames reads it
  watchedCourts,         \* the page's court-count field
  scores,                \* the page's scores state: match id -> Score
  schedule,              \* the schedule the page displays
  enteredFor             \* per score and side, the match that was displayed
                         \* under the id when the score was entered

\* the state of the page
page == << watchedNames, watchedCourts, scores, schedule, enteredFor >>

vars == << players, courtCount, state, totalRoundsRequested, teams, round,
           partnerCounts, opponentCounts, playCounts, matches, candidates,
           call, firstResult, firstArgs, page >>

\* what belongs to the caller and no run touches
caller == << call, firstResult, firstArgs, page >>

History == [ partner |-> partnerCounts, opponent |-> opponentCounts,
             plays |-> playCounts ]

Init ==
  /\ \E in \in Inputs :
       /\ players = toPlayers(in[1])
       /\ courtCount = in[2]
  /\ state = "Initializing"
  /\ totalRoundsRequested = 0
  /\ teams = << >>
  /\ round = 0
  /\ partnerCounts = EmptyMap
  /\ opponentCounts = EmptyMap
  /\ playCounts = EmptyMap
  /\ matches = << >>
  /\ candidates = << >>
  /\ call = 1
  /\ firstResult = << >>
  /\ firstArgs = << players, courtCount >>
  /\ watchedNames = << >>
  /\ watchedCourts = PageDefaultCourts
  /\ scores = << >>
  /\ schedule = << >>
  /\ enteredFor = << >>

\* an entry that keeps the history of the previous call
Start_StaleHistory ==
  /\ state = "Initializing"
  /\ matches' = << >>
  /\ candidates' = << >>
  /\ round' = 0
  /\ IF Len(players) < MinPlayers
     THEN /\ state' = "Finished"
          /\ UNCHANGED << totalRoundsRequested, teams >>
     ELSE /\ totalRoundsRequested' = computeTargetRounds(Len(players), courtCount)
          /\ teams' = generateAllTeams(players)
          /\ state' = IF Len(teams') = 0 THEN "Finished" ELSE "RoundLoop"
  /\ UNCHANGED << players, courtCount, caller, partnerCounts, opponentCounts,
                  playCounts >>

\* an entry that computes the team universe once and keeps it for later calls
Start_CachedTeams ==
  /\ state = "Initializing"
  /\ partnerCounts' = EmptyMap
  /\ opponentCounts' = EmptyMap
  /\ playCounts' = EmptyMap
  /\ matches' = << >>
  /\ candidates' = << >>
  /\ round' = 0
  /\ IF Len(players) < MinPlayers
     THEN /\ state' = "Finished"
          /\ UNCHANGED << totalRoundsRequested, teams >>
     ELSE /\ totalRoundsRequested' = computeTargetRounds(Len(players), courtCount)
          /\ teams' = IF teams # << >> THEN teams ELSE generateAllTeams(players)
          /\ state' = IF Len(teams') = 0 THEN "Finished" ELSE "RoundLoop"
  /\ UNCHANGED << players, courtCount, caller >>

\* entry of generateSchedule up to the loop: the two early returns, the
\* target round count, the team universe and the fresh history
Start ==
  /\ state = "Initializing"
  /\ partnerCounts' = EmptyMap
  /\ opponentCounts' = EmptyMap
  /\ playCounts' = EmptyMap
  /\ matches' = << >>
  /\ candidates' = << >>
  /\ round' = 0
  /\ IF Len(players) < MinPlayers
     THEN /\ state' = "Finished"
          /\ UNCHANGED << totalRoundsRequested, teams >>
     ELSE /\ totalRoundsRequested' = computeTargetRounds(Len(players), courtCount)
          /\ teams' = generateAllTeams(players)
          /\ state' = IF Len(teams') = 0 THEN "Finished" ELSE "RoundLoop"
  /\ UNCHANGED << players, courtCount, caller >>

\* an iteration that goes on to the next round after an empty selection
RoundIteration_SkipsEmptyRound ==
  /\ state = "RoundLoop"
  /\ round < totalRoundsRequested
  /\ LET picked == pickRoundMatches(teams, partnerCounts, opponentCounts,
                                    playCounts, courtCount)
         roundMatches == picked.best
         h == CommitRoundMatches(History, roundMatches)
     IN  /\ candidates' = picked.candidates
         /\ partnerCounts' = h.partner
         /\ opponentCounts' = h.opponent
         /\ playCounts' = h.plays
         /\ matches' = matches \o RoundRecords(round, roundMatches)
         /\ round' = round + 1
         /\ UNCHANGED state
  /\ UNCHANGED << players, courtCount, totalRoundsRequested, teams, caller >>

\* one iteration of the loop: select the round's matches; break when there
\* are none, else commit every one of them
RoundIteration ==
  /\ state = "RoundLoop"
  /\ round < totalRoundsRequested
  /\ LET picked == pickRoundMatches(teams, partnerCounts, opponentCounts,
                                    playCounts, courtCount)
         roundMatches == picked.best
         h == CommitRoundMatches(History, roundMatches)
     IN  /\ candidates' = picked.candidates
         /\ IF Len(roundMatches) = 0
            THEN /\ state' = "Finished"
                 /\ UNCHANGED << round, partnerCounts, opponentCounts,
                                 playCounts, matches >>
            ELSE /\ partnerCounts' = h.partner
                 /\ opponentCounts' = h.opponent
                 /\ playCounts' = h.plays
                 /\ matches' = matches \o RoundRecords(round, roundMatches)
                 /\ round' = round + 1
                 /\ UNCHANGED state
  /\ UNCHANGED << players, courtCount, totalRoundsRequested, teams, caller >>

\* an exit that waits for the index to pass the target
LoopExit_PastTarget ==
  /\ state = "RoundLoop"
  /\ round > totalRoundsRequested
  /\ state' = "Finished"
  /\ UNCHANGED << players, courtCount, totalRoundsRequested, teams, round,
                  partnerCounts, opponentCounts, playCounts, matches,
                  candidates, caller >>

\* the loop condition round < totalRoundsRequested fails: return matches
LoopExit ==
  /\ state = "RoundLoop"
  /\ round >= totalRoundsRequested
  /\ state' = "Finished"
  /\ UNCHANGED << players, courtCount, totalRoundsRequested, teams, round,
                  partnerCounts, opponentCounts, playCounts, matches,
                  candidates, caller >>

\* the caller calls generateSchedule with other arguments in between; the
\* new call has no result and no candidates yet, the old result stays with
\* the caller
CallOther ==
  /\ state = "Finished"
  /\ call = 1
  /\ call' = 0
  /\ firstResult' = matches
  /\ \E in \in OtherInputs :
       /\ players' = toPlayers(in[1])
       /\ courtCount' = in[2]
  /\ state' = "Initializing"
  /\ matches' = << >>
  /\ candidates' = << >>
  /\ UNCHANGED << totalRoundsRequested, teams, round, partnerCounts,
                  opponentCounts, playCounts, firstArgs, page >>

\* the caller calls generateSchedule once more with the arguments of the
\* first call, directly or after the call with other arguments
CallAgain ==
  /\ state = "Finished"
  /\ call \in { 0, 1 }
  /\ call' = IF call = 1 THEN 2 ELSE 3
  /\ firstResult' = IF call = 1 THEN matches ELSE firstResult
  /\ players' = firstArgs[1]
  /\ courtCount' = firstArgs[2]
  /\ state' = "Initializing"
  /\ matches' = << >>
  /\ candidates' = << >>
  /\ UNCHANGED << totalRoundsRequested, teams, round, partnerCounts,
                  opponentCounts, playCounts, firstArgs, page >>

Next == Start \/ RoundIteration \/ LoopExit \/ CallOther \/ CallAgain

Spec == Init /\ [][Next]_vars

\* the loop condition: RoundIteration can take a step exactly when it holds
LoopCondition == state = "RoundLoop" /\ round < totalRoundsRequested

\* what every step of RoundIteration, and no other step of Next, does: with
\* the loop condition true, the body runs to the break or to the increment
\* of the index
LoopBody ==
  /\ LoopCondition
  /\ \/ state' = "Finished"
     \/ round' = round + 1

\* generateSchedule is synchronous code: once called, each of its steps is
\* taken as soon as it can be; the caller is free to call again or not.
\* The last conjunct is WF_vars(RoundIteration) written out, with
\* LoopCondition for ENABLED <<RoundIteration>>_vars.
FairSpec ==
  /\ Spec
  /\ WF_vars(Start)
  /\ WF_vars(LoopExit)
  /\ ([]<>(~ LoopCondition) \/ []<><<LoopBody>>_vars)

\* ----------------------------------------------------------------- the page
\* Math.min(Math.max(watchedCourts || 2, 1), 6)
PageCourtCount(w) ==
  Min(Max(IF w = 0 THEN PageDefaultCourts ELSE w, PageMinCourts), PageMaxCourts)

\* the schedule of a render: generateSchedule(toPlayers(ensureEvenPlayers(
\* parseNames(watchedNames))), courtCount)
Displayed(names, w) ==
  generateSchedule(toPlayers(ensureEvenPlayers(names)), PageCourtCount(w))

\* a Score side is number | null: << >> is null, << n >> the number n.  The
\* text of a score input is "" (<< >>) or the digits of a number (<< n >>).
NoScore == << >>

\* value === "" ? null : Math.max(0, Number(value))
Numeric(text) == IF text = << >> THEN NoScore ELSE << Max(0, text[1]) >>

\* prev[matchId]?.teamA ?? null, prev[matchId]?.teamB ?? null
ScoreOf(prev, matchId) ==
  IF matchId \in DOMAIN prev THEN prev[matchId]
  ELSE [ teamA |-> NoScore, teamB |-> NoScore ]

\* the new scores state of handleScoreChange(matchId, side, value)
handleScoreChange(prev, matchId, side, value) ==
  LET old == ScoreOf(prev, matchId)
  IN  (matchId :> [ teamA |-> IF side = "teamA" THEN value ELSE old.teamA,
                    teamB |-> IF side = "teamB" THEN value ELSE old.teamB ])
        @@ prev

\* the rosters typed into the field
PageRosters ==
  { AllReal(3), FourRoster, FiveRoster, << ByeName >> \o FourRoster }

PageScoreTexts == { << >>, << 11 >>, << -1 >> }

PageInit ==
  /\ players = << >>
  /\ courtCount = 0
  /\ state = "Finished"
  /\ totalRoundsRequested = 0
  /\ teams = << >>
  /\ round = 0
  /\ partnerCounts = EmptyMap
  /\ opponentCounts = EmptyMap
  /\ playCounts = EmptyMap
  /\ matches = << >>
  /\ candidates = << >>
  /\ call = 1
  /\ firstResult = << >>
  /\ firstArgs = << players, courtCount >>
  /\ watchedNames \in PageRosters
  /\ watchedCourts = PageDefaultCourts
  /\ scores = << >>
  /\ schedule = Displayed(watchedNames, watchedCourts)
  /\ enteredFor = << >>

\* what the page never touches: the locals of a call of generateSchedule
scheduler ==
  << players, courtCount, state, totalRoundsRequested, teams, round,
     partnerCounts, opponentCounts, playCounts, matches, candidates,
     call, firstResult, firstArgs >>

\* the roster field changes: the next render recomputes the schedule; the
\* scores state stays
EditNames ==
  /\ \E names \in PageRosters \ { watchedNames } :
       /\ watchedNames' = names
       /\ schedule' = Displayed(names, watchedCourts)
  /\ UNCHANGED << watchedCourts, scores, enteredFor, scheduler >>

\* the court slider changes: the next render recomputes the schedule; the
\* scores state stays
EditCourts ==
  /\ \E w \in (PageMinCourts..MaxCourts) \ { watchedCourts } :
       /\ watchedCourts' = w
       /\ schedule' = Displayed(watchedNames, w)
  /\ UNCHANGED << watchedNames, scores, enteredFor, scheduler >>

\* a score input of a displayed match changes
EnterScore ==
  /\ \E k \in 1..Len(schedule), side \in { "teamA", "teamB" },
        text \in PageScoreTexts :
       /\ schedule[k].round <= MaxScoredRound
       /\ scores' = handleScoreChange(scores, schedule[k].id, side, Numeric(text))
       /\ enteredFor' = handleScoreChange(enteredFor, schedule[k].id, side,
                           IF Numeric(text) = NoScore THEN NoScore
                           ELSE << schedule[k] >>)
  /\ UNCHANGED << watchedNames, watchedCourts, schedule, scheduler >>

\* handleResetScores
ResetScores ==
  /\ scores' = << >>
  /\ enteredFor' = << >>
  /\ UNCHANGED << watchedNames, watchedCourts, schedule, scheduler >>

\* onSubmit, which runs when the form is valid: at least 4 names and 1 to 6
\* courts
Submit ==
  /\ Len(watchedNames) >= MinPlayers
  /\ watchedCourts \in PageMinCourts..PageMaxCourts
  /\ scores' = << >>
  /\ enteredFor' = << >>
  /\ UNCHANGED << watchedNames, watchedCourts, schedule, scheduler >>

PageNext == EditNames \/ EditCourts \/ EnterScore \/ ResetScores \/ Submit

PageSpec == PageInit /\ [][PageNext]_vars

\* ------------------------------------------------- the page's sit-out list
\* a sit-out list that does not leave the placeholder out
SitOutList_ListsBye(allPlayers, ms) ==
  LET usedIds == UNION { { ms[k].teamA[1].id, ms[k].teamA[2].id,
                           ms[k].teamB[1].id, ms[k].teamB[2].id } : k \in 1..Len(ms) }
  IN  { allPlayers[k] : k \in { i \in 1..Len(allPlayers) :
          allPlayers[i].id \notin usedIds } }

\* SitOutList: the non-Bye players of the roster in none of the given matches
SitOutList(allPlayers, ms) ==
  LET usedIds == UNION { { ms[k].teamA[1].id, ms[k].teamA[2].id,
                           ms[k].teamB[1].id, ms[k].teamB[2].id } : k \in 1..Len(ms) }
  IN  { allPlayers[k] : k \in { i \in 1..Len(allPlayers) :
          allPlayers[i].id \notin usedIds /\ allPlayers[i].name # ByeName } }

\* ---------------------------------------------- vocabulary of the properties
\* the ids of the four players of a committed match
MatchIds(m) == { m.teamA[1].id, m.teamA[2].id, m.teamB[1].id, m.teamB[2].id }

TeamIds(team) == { team[1].id, team[2].id }

\* the committed matches of round r, in schedule order
RoundOf(r) == LET InRound(m) == m.round = r IN SelectSeq(matches, InRound)

Rounds == { matches[k].round : k \in 1..Len(matches) }

\* number of committed matches in which a and b were teammates
TimesPartnered(a, b) ==
  Cardinality({ k \in 1..Len(matches) :
    \/ TeamIds(matches[k].teamA) = { a.id, b.id }
    \/ TeamIds(matches[k].teamB) = { a.id, b.id } })

\* number of committed matches in which a and b were on opposite sides
TimesOpposed(a, b) ==
  Cardinality({ k \in 1..Len(matches) :
    \/ a.id \in TeamIds(matches[k].teamA) /\ b.id \in TeamIds(matches[k].teamB)
    \/ b.id \in TeamIds(matches[k].teamA) /\ a.id \in TeamIds(matches[k].teamB) })

\* number of committed matches in which p played
TimesPlayed(p) ==
  Cardinality({ k \in 1..Len(matches) : p.id \in MatchIds(matches[k]) })

\* the penalty as a function of the committed matches, with weights wp and wo
PenaltyFromMatches(teamA, teamB, wp, wo) ==
    wp * (TimesPartnered(teamA[1], teamA[2]) + TimesPartnered(teamB[1], teamB[2]))
  + wo * (  TimesOpposed(teamA[1], teamB[1]) + TimesOpposed(teamA[1], teamB[2])
          + TimesOpposed(teamA[2], teamB[1]) + TimesOpposed(teamA[2], teamB[2]))
  + TimesPlayed(teamA[1]) + TimesPlayed(teamA[2])
  + TimesPlayed(teamB[1]) + TimesPlayed(teamB[2])

\* the ordered pairs of disjoint teams of the team universe
DisjointTeamPairs ==
  { pr \in (1..Len(teams)) \X (1..Len(teams)) :
      FourDistinct(teams[pr[1]], teams[pr[2]]) }

ScoreIs(wp, wo) ==
  \A pr \in DisjointTeamPairs :
    scoreMatch(teams[pr[1]], teams[pr[2]], partnerCounts, opponentCounts, playCounts)
      = PenaltyFromMatches(teams[pr[1]], teams[pr[2]], wp, wo)

InRun == state \in { "RoundLoop", "Finished" }

\* ----------------------------------------------------------------- claims

\* C1 (as stated): in every history reachable during a run, scoreMatch of two
\* disjoint teams is 5 x (times teamA partnered + times teamB partnered)
\* + 3 x (times the 4 cross pairs opposed) + the 4 play counts.
C1_ScoreWeights5And3 == InRun => ScoreIs(PartnerWeight, OpponentWeight)

\* C1 (amended): scoreMatch looks every pair up in both directions and both
\* directions are incremented at commit, so the penalty is
\* 10 x (partner repeats) + 6 x (opponent repeats) + the 4 play counts.
C1_ScoreCountsBothDirections ==
  InRun => ScoreIs(2 * PartnerWeight, 2 * OpponentWeight)

\* C1 witness: a candidate is scored whose teams partnered before and whose
\* players met as opponents before
C1_Witness ==
  /\ state = "RoundLoop"
  /\ round < totalRoundsRequested
  /\ \E pr \in DisjointTeamPairs :
       /\ TimesPartnered(teams[pr[1]][1], teams[pr[1]][2]) > 0
       /\ TimesOpposed(teams[pr[1]][1], teams[pr[2]][1]) > 0
       /\ scoreMatch(teams[pr[1]], teams[pr[2]], partnerCounts, opponentCounts,
                     playCounts) > 0

\* C2: a second call with the same roster and court count returns the same
\* schedule as the first, match for match (id, round, court, teamA, teamB).
C2_Determinism ==
  (state = "Finished" /\ call = 2) => matches = firstResult

C2_Witness ==
  /\ state = "Finished"
  /\ call = 2
  /\ Cardinality(Rounds) >= 2
  /\ matches = firstResult

\* C3: in every round no player appears in more than one match.
C3_NoPlayerTwiceInRound ==
  \A k, l \in 1..Len(matches) :
    (k # l /\ matches[k].round = matches[l].round)
      => MatchIds(matches[k]) \cap MatchIds(matches[l]) = {}

C3_Witness ==
  /\ state = "Finished"
  /\ \E k, l \in 1..Len(matches) :
       /\ k # l
       /\ matches[k].round = matches[l].round
       /\ matches[k].round > 1

\* C4: the four players of a committed match are pairwise distinct.
C4_FourDistinctPlayers ==
  \A k \in 1..Len(matches) :
    LET m == matches[k]
        four == << m.teamA[1].id, m.teamA[2].id, m.teamB[1].id, m.teamB[2].id >>
    IN  \A i, j \in 1..4 : i # j => four[i] # four[j]

C4_Witness ==
  /\ state = "Finished"
  /\ Len(matches) >= 2

\* number of non-Bye players of the roster
Eligible == Cardinality({ k \in 1..Len(players) : players[k].name # ByeName })

\* C5: every round has at most courtCount matches and at most
\* floor(E / 4) matches, E the number of non-Bye players.
C5_RoundSizeBounded ==
  \A r \in Rounds :
    /\ Len(RoundOf(r)) <= courtCount
    /\ Len(RoundOf(r)) <= Eligible \div 4

\* C5 witness: 2 courts but players for one match only, and one is played
C5_Witness ==
  /\ state = "Finished"
  /\ courtCount = 2
  /\ Eligible \in 4..7
  /\ \E r \in Rounds : Len(RoundOf(r)) = 1

\* C6: fewer than 4 roster entries, no team, or 0 courts: the result is the
\* empty sequence.
C6_InsufficientInputIsEmpty ==
  ( /\ state = "Finished"
    /\ \/ Len(players) < MinPlayers
       \/ Len(generateAllTeams(players)) = 0
       \/ courtCount = 0 )
  => matches = << >>

\* C6 witness: enough players for a match but no court
C6_Witness ==
  /\ state = "Finished"
  /\ courtCount = 0
  /\ Eligible >= 4
  /\ matches = << >>

\* the least q with q * d >= a
LeastMultiple(a, d) == CHOOSE q \in 0..a : q * d >= a /\ \A q2 \in 0..(q - 1) : q2 * d < a

\* R of the specification, for roster length n and court count c
TargetR(n, c) ==
  LET sum == (IF n - 1 > 1 THEN n - 1 ELSE 1)
               + LeastMultiple(IF n > 4 THEN n - 4 ELSE 0, IF c > 1 THEN c ELSE 1)
  IN  IF sum < 50 THEN sum ELSE 50

\* C7: the target round count is R and no round number exceeds R (so none
\* exceeds 50).
C7_RoundsWithinTarget ==
  /\ state = "RoundLoop" => totalRoundsRequested = TargetR(Len(players), courtCount)
  /\ \A r \in Rounds : r <= TargetR(Len(players), courtCount) /\ r <= 50

\* C7 witness: a run cut off by the ceiling of 50
C7_Witness ==
  /\ state = "Finished"
  /\ 50 \in Rounds
  /\ (Len(players) - 1)
       + LeastMultiple(Len(players) - 4, IF courtCount > 1 THEN courtCount ELSE 1) > 50

\* the pairs of players that were teammates in a round before round r
PartneredBefore(r) ==
  UNION { { TeamIds(matches[k].teamA), TeamIds(matches[k].teamB) } :
            k \in { i \in 1..Len(matches) : matches[i].round < r } }

\* all unordered pairs of non-Bye players of the roster
AllPairs ==
  LET real == { players[k].id : k \in { i \in 1..Len(players) :
                                          players[i].name # ByeName } }
  IN  { pr \in SUBSET real : Cardinality(pr) = 2 }

IsDiversityRun == players = toPlayers(EightRoster) /\ courtCount = 2

\* C8: 8 players, 2 courts: a team of round r that was already a team in an
\* earlier round plays only after all 28 pairs were teammates before round r;
\* the run goes over the full target round count.
C8_NoRepeatBeforeFullRotation ==
  IsDiversityRun =>
    /\ \A k \in 1..Len(matches) :
         \A team \in { TeamIds(matches[k].teamA), TeamIds(matches[k].teamB) } :
           team \in PartneredBefore(matches[k].round)
             => PartneredBefore(matches[k].round) = AllPairs
    /\ state = "Finished" => Rounds = 1..totalRoundsRequested

\* C8 witness: the run is finished and a partner pair did repeat
C8_Witness ==
  /\ IsDiversityRun
  /\ state = "Finished"
  /\ Cardinality(AllPairs) = 28
  /\ \E k \in 1..Len(matches) :
       TeamIds(matches[k].teamA) \in PartneredBefore(matches[k].round)

\* the partner split of a match: its two teams as sets of ids
Split(m) == { TeamIds(m.teamA), TeamIds(m.teamB) }

IsFourPlayerRun == players = toPlayers(FourRoster) /\ courtCount = 1

\* C9: 4 players, 1 court: exactly 3 rounds of one match each, all 4 play,
\* and each round's partner split differs from the previous round's.
C9_FourPlayersThreeSplits ==
  (IsFourPlayerRun /\ state = "Finished") =>
    /\ Len(matches) = 3
    /\ \A k \in 1..3 :
         /\ matches[k].round = k
         /\ MatchIds(matches[k]) = { players[i].id : i \in 1..4 }
    /\ \A k \in 2..3 : Split(matches[k]) # Split(matches[k - 1])

C9_Witness ==
  /\ IsFourPlayerRun
  /\ state = "Finished"
  /\ Len(matches) = 3
  /\ Cardinality({ Split(matches[k]) : k \in 1..3 }) = 3

IsFivePlayerRun ==
  players = toPlayers(ensureEvenPlayers(FiveRoster)) /\ courtCount = 1

\* C10: 5 players plus the appended Bye, 1 court: every round has exactly one
\* match, of 4 real players, and exactly one real player sits out.
C10_OneSitsOutEachRound ==
  IsFivePlayerRun =>
    /\ \A r \in Rounds :
         /\ Len(RoundOf(r)) = 1
         /\ \A id \in MatchIds(RoundOf(r)[1]) : id[2] # ByeName
         /\ Cardinality(MatchIds(RoundOf(r)[1])) = 4
         /\ Cardinality(SitOutList(players, RoundOf(r))) = 1
    /\ state = "Finished" => Rounds = 1..totalRoundsRequested

C10_Witness ==
  /\ IsFivePlayerRun
  /\ state = "Finished"
  /\ Len(players) = 6
  /\ players[6].name = ByeName
  /\ Cardinality(Rounds) = 7
  /\ Cardinality(UNION { SitOutList(players, RoundOf(r)) : r \in Rounds }) = 5

\* C11: no player of any committed match is named "Bye", whatever the roster
\* and the court count.
C11_ByeNeverPlays ==
  \A k \in 1..Len(matches) :
    \A p \in { matches[k].teamA[1], matches[k].teamA[2],
               matches[k].teamB[1], matches[k].teamB[2] } :
      p.name # ByeName

C11_Witness ==
  /\ state = "Finished"
  /\ Len(matches) > 0
  /\ \E k \in 1..Len(players) : players[k].name = ByeName

\* every counter a lookup can read, before (h) and after (g) a step, compared
CountsNotBelow(g, h) ==
  /\ \A i, j \in 1..Len(players) :
       /\ getCount(g.partner, players[i], players[j])
            >= getCount(h.partner, players[i], players[j])
       /\ getCount(g.opponent, players[i], players[j])
            >= getCount(h.opponent, players[i], players[j])
  /\ \A i \in 1..Len(players) :
       getPlays(g.plays, players[i]) >= getPlays(h.plays, players[i])
  /\ DOMAIN h.partner \subseteq DOMAIN g.partner
  /\ DOMAIN h.opponent \subseteq DOMAIN g.opponent
  /\ DOMAIN h.plays \subseteq DOMAIN g.plays

AllZero(h) ==
  /\ \A i, j \in 1..Len(players) :
       /\ getCount(h.partner, players[i], players[j]) = 0
       /\ getCount(h.opponent, players[i], players[j]) = 0
  /\ \A i \in 1..Len(players) : getPlays(h.plays, players[i]) = 0

\* C12: the entry of a run leaves every partner, opponent and play count at
\* 0, and no step of the run after it lowers or removes any counter.
C12_MonotonicHistory ==
  [][ /\ state = "Initializing" => AllZero(History)'
      /\ state = "RoundLoop" => CountsNotBelow(History', History) ]_vars

C12_Witness ==
  /\ state = "RoundLoop"
  /\ \E i, j \in 1..Len(players) :
       /\ i # j
       /\ getCount(partnerCounts, players[i], players[j]) >= 2
       /\ getCount(opponentCounts, players[i], players[j]) >= 2
       /\ getPlays(playCounts, players[i]) >= 2

\* the ids of the four players of a candidate
CandidateIds(cand) == TeamIds(cand.match[1]) \cup TeamIds(cand.match[2])

\* the positions, in a sorted candidate list, of the candidates a greedy
\* acceptance takes: the next one is the first candidate, after the ones
\* taken so far, that shares no player with them; at most c are taken
RECURSIVE AcceptedFrom(_, _, _)
AcceptedFrom(cands, c, taken) ==
  LET used == UNION { CandidateIds(cands[taken[j]]) : j \in 1..Len(taken) }
      last == IF Len(taken) = 0 THEN 0 ELSE taken[Len(taken)]
      free == { k \in (last + 1)..Len(cands) : CandidateIds(cands[k]) \cap used = {} }
  IN  IF Len(taken) >= c \/ free = {} THEN taken
      ELSE AcceptedFrom(cands, c,
             Append(taken, CHOOSE k \in free : \A k2 \in free : k <= k2))

Accepted(cands, c) == AcceptedFrom(cands, c, << >>)

\* a round was just committed: candidates is its sorted list, RoundOf(round)
\* are its records
RoundCommitted == state = "RoundLoop" /\ round >= 1

\* C13: round numbers never decrease along the result; the court of a record
\* is 1 + the number of earlier records of its round; and court j of the
\* round just committed holds the j-th candidate the selector accepted.
C13_RoundMajorCourtMinor ==
  /\ \A k \in 1..(Len(matches) - 1) : matches[k].round <= matches[k + 1].round
  /\ \A k \in 1..Len(matches) :
       matches[k].court
         = 1 + Cardinality({ j \in 1..(k - 1) : matches[j].round = matches[k].round })
  /\ RoundCommitted =>
       LET acc == Accepted(candidates, courtCount)
           recs == RoundOf(round)
       IN  /\ Len(recs) = Len(acc)
           /\ \A j \in 1..Len(recs) :
                /\ recs[j].court = j
                /\ << recs[j].teamA, recs[j].teamB >> = candidates[acc[j]].match

C13_Witness ==
  /\ RoundCommitted
  /\ round >= 2
  /\ Len(RoundOf(round)) >= 2
  /\ Accepted(candidates, courtCount)[2] > 2

\* C14: no step of a call changes the arguments it was given; the entry of a
\* call leaves an all-zero history, an empty result, and a team universe and
\* a round target computed from its own arguments, whatever the previous
\* call left behind; and the first call repeated after a call with other
\* arguments returns what the first call returned.
C14_CallsIndependent ==
  [][ /\ state \in { "Initializing", "RoundLoop" } =>
           /\ players' = players
           /\ courtCount' = courtCount
      /\ state = "Initializing" =>
           /\ AllZero(History)'
           /\ matches' = << >>
           /\ state' = "RoundLoop" =>
                /\ teams' = generateAllTeams(players)
                /\ totalRoundsRequested'
                     = computeTargetRounds(Len(players), courtCount)
      /\ (call = 3 /\ state' = "Finished") => matches' = firstResult ]_vars

C14_Witness ==
  /\ call = 3
  /\ state = "Finished"
  /\ firstArgs # << toPlayers(FourRoster), 1 >>
  /\ Len(matches) > 3

\* the roster positions (1-based) of the players not named "Bye"
RealPositions == { k \in 1..Len(players) : players[k].name # ByeName }

\* the roster position of a player, read off its id
PositionOf(p) == p.id[1] + 1

\* C15: generateAllTeams of the roster has n(n-1)/2 teams for n non-Bye
\* players; each team is two non-Bye players of the roster, the first at a
\* smaller roster index than the second; every such pair is there exactly
\* once; the teams are in ascending order of (first index, second index);
\* and this is the team universe the round loop works with.
C15_AllTeamsOnceInOrder ==
  LET ts == generateAllTeams(players)
      n == Cardinality(RealPositions)
  IN  /\ Len(ts) = (n * (n - 1)) \div 2
      /\ n < 2 => ts = << >>
      /\ \A k \in 1..Len(ts) :
           /\ PositionOf(ts[k][1]) \in RealPositions
           /\ PositionOf(ts[k][2]) \in RealPositions
           /\ ts[k][1] = players[PositionOf(ts[k][1])]
           /\ ts[k][2] = players[PositionOf(ts[k][2])]
           /\ PositionOf(ts[k][1]) < PositionOf(ts[k][2])
      /\ \A i, j \in RealPositions :
           i < j => Cardinality({ k \in 1..Len(ts) :
                      ts[k] = << players[i], players[j] >> }) = 1
      /\ \A k \in 1..(Len(ts) - 1) :
           \/ PositionOf(ts[k][1]) < PositionOf(ts[k + 1][1])
           \/ /\ PositionOf(ts[k][1]) = PositionOf(ts[k + 1][1])
              /\ PositionOf(ts[k][2]) < PositionOf(ts[k + 1][2])
      /\ state = "RoundLoop" => teams = ts

C15_Witness ==
  /\ state = "RoundLoop"
  /\ Len(teams) = 10
  /\ Len(players) > PadByes
  /\ \E k \in 1..Len(teams) :
       PositionOf(teams[k][2]) - PositionOf(teams[k][1]) > PadByes

\* C16: between the commits of whole rounds, which is where every lookup is
\* made, getCount(map, a, b) = getCount(map, b, a) for every two players of
\* the roster, for the partner map and for the opponent map.
C16_SymmetricLookup ==
  \A i, j \in 1..Len(players) :
    /\ getCount(partnerCounts, players[i], players[j])
         = getCount(partnerCounts, players[j], players[i])
    /\ getCount(opponentCounts, players[i], players[j])
         = getCount(opponentCounts, players[j], players[i])

C16_Witness ==
  /\ state = "RoundLoop"
  /\ \E i, j \in 1..Len(players) :
       /\ i < j
       /\ getCount(partnerCounts, players[i], players[j]) = 1
       /\ getCount(opponentCounts, players[j], players[i]) = 2

\* C17 (as stated): at the end of a schedule for at least 4 non-Bye players
\* and at least 1 court, the numbers of matches played by any two non-Bye
\* players differ by at most 1.
C17_PlaySpreadAtMostOne ==
  (state = "Finished" /\ Eligible >= MinPlayers /\ courtCount >= 1) =>
    \A i, j \in RealPositions :
      TimesPlayed(players[i]) - TimesPlayed(players[j]) <= 1

\* how two neighbours of the sorted candidate list stand to each other
ScoreBelow(a, b) == a.score < b.score

KeyBelow(a, b) == a.score = b.score /\ StrCompare(a.key, b.key) < 0

SameScoreAndKey(a, b) == a.score = b.score /\ StrCompare(a.key, b.key) = 0

\* C18 (as stated): the sorted list is strictly ascending in (score, key), no
\* two candidates sharing both.
C18_OrderFixedByScoreAndKey ==
  \A k \in 1..(Len(candidates) - 1) :
    \/ ScoreBelow(candidates[k], candidates[k + 1])
    \/ KeyBelow(candidates[k], candidates[k + 1])

\* C18 (amended): the sorted list is ascending by score, equal scores by key;
\* candidates of equal score and key are the splits of the same four players
\* and stay in the order of their enumeration.
C18_TiesKeepEnumerationOrder ==
  /\ { candidates[k].pos : k \in 1..Len(candidates) } = 1..Len(candidates)
  /\ \A k \in 1..(Len(candidates) - 1) :
       \/ ScoreBelow(candidates[k], candidates[k + 1])
       \/ KeyBelow(candidates[k], candidates[k + 1])
       \/ /\ SameScoreAndKey(candidates[k], candidates[k + 1])
          /\ CandidateIds(candidates[k]) = CandidateIds(candidates[k + 1])
          /\ candidates[k].pos < candidates[k + 1].pos

C18_Witness ==
  /\ RoundCommitted
  /\ round >= 2
  /\ \E k \in 1..(Len(candidates) - 1) :
       ScoreBelow(candidates[k], candidates[k + 1])
  /\ \E k \in 1..(Len(candidates) - 1) :
       KeyBelow(candidates[k], candidates[k + 1])
  /\ \E k \in 1..(Len(candidates) - 1) :
       SameScoreAndKey(candidates[k], candidates[k + 1])

\* the positions, in the sorted list, of the candidates that became the
\* records of the round just committed
AcceptedPositions ==
  LET recs == RoundOf(round)
      pairs == { << recs[j].teamA, recs[j].teamB >> : j \in 1..Len(recs) }
  IN  { k \in 1..Len(candidates) : candidates[k].match \in pairs }

\* C19: in the round just committed, a candidate of the sorted list was
\* accepted exactly when fewer than courtCount candidates before it were
\* accepted and it shares no player with any of those; the match on court j
\* has the least score of all candidates sharing no player with the matches
\* on courts 1..j-1, so court 1 has the least score of all.
C19_GreedyAcceptance ==
  RoundCommitted =>
    LET acc == AcceptedPositions
        recs == RoundOf(round)
    IN  /\ Cardinality(acc) = Len(recs)
        /\ \A k \in 1..Len(candidates) :
             k \in acc <=>
               /\ Cardinality({ l \in acc : l < k }) < courtCount
               /\ \A l \in acc :
                    l < k => CandidateIds(candidates[l]) \cap CandidateIds(candidates[k]) = {}
        /\ \A j \in 1..Len(recs) :
             \E a \in acc :
               /\ candidates[a].match = << recs[j].teamA, recs[j].teamB >>
               /\ LET used == UNION { MatchIds(recs[i]) : i \in 1..(j - 1) }
                  IN  \A k \in 1..Len(candidates) :
                        CandidateIds(candidates[k]) \cap used = {}
                          => candidates[a].score <= candidates[k].score

C19_Witness ==
  /\ RoundCommitted
  /\ Len(RoundOf(round)) = 2
  /\ candidates[1].score > 0
  /\ candidates[Len(candidates)].score > candidates[1].score
  /\ 1 \in AcceptedPositions
  /\ 2 \notin AcceptedPositions
  /\ Len(candidates) \notin AcceptedPositions

\* a step of the loop that commits a round
CommitsRound == state = "RoundLoop" /\ round' = round + 1

\* the records the step appends
Appended == SubSeq(matches', Len(matches) + 1, Len(matches'))

\* in how many of the records ms a and b are teammates, are on opposite
\* sides, and a plays
PartneredIn(ms, a, b) ==
  Cardinality({ k \in 1..Len(ms) :
    a.id # b.id /\ (TeamIds(ms[k].teamA) = { a.id, b.id }
                     \/ TeamIds(ms[k].teamB) = { a.id, b.id }) })

OpposedIn(ms, a, b) ==
  Cardinality({ k \in 1..Len(ms) :
    \/ a.id \in TeamIds(ms[k].teamA) /\ b.id \in TeamIds(ms[k].teamB)
    \/ b.id \in TeamIds(ms[k].teamA) /\ a.id \in TeamIds(ms[k].teamB) })

PlayedIn(ms, a) ==
  Cardinality({ k \in 1..Len(ms) : a.id \in MatchIds(ms[k]) })

PlayerIds == { players[k].id : k \in 1..Len(players) }

\* C20: a step of a run that commits no round leaves the three maps as they
\* are; a step that commits a round raises, for each match it appends, the
\* play count of its 4 players by 1, the partner count of its 2 teammate
\* pairs by 1 in both directions and the opponent count of its 4 cross-team
\* pairs by 1 in both directions, changes no other counter and creates
\* counters for players of the roster only; and the candidates of the
\* selection an iteration makes carry the scores of the history before it.
C20_CommitIsTheOnlyWrite ==
  [][ /\ (state # "Initializing" /\ ~ CommitsRound) => History' = History
      /\ CommitsRound =>
           LET new == Appended
           IN  /\ \A i, j \in 1..Len(players) :
                    /\ getCount(partnerCounts', players[i], players[j])
                         = getCount(partnerCounts, players[i], players[j])
                           + PartneredIn(new, players[i], players[j])
                    /\ getCount(opponentCounts', players[i], players[j])
                         = getCount(opponentCounts, players[i], players[j])
                           + OpposedIn(new, players[i], players[j])
               /\ \A i \in 1..Len(players) :
                    getPlays(playCounts', players[i])
                      = getPlays(playCounts, players[i]) + PlayedIn(new, players[i])
               /\ DOMAIN partnerCounts' \subseteq PlayerIds \X PlayerIds
               /\ DOMAIN opponentCounts' \subseteq PlayerIds \X PlayerIds
               /\ DOMAIN playCounts' \subseteq PlayerIds
      /\ (state = "RoundLoop" /\ round < totalRoundsRequested) =>
           \A k \in 1..Len(candidates') :
             candidates'[k].score
               = scoreMatch(candidates'[k].match[1], candidates'[k].match[2],
                            partnerCounts, opponentCounts, playCounts) ]_vars

C20_Witness ==
  /\ RoundCommitted
  /\ round >= 3
  /\ Len(RoundOf(round)) = 2
  /\ \E k \in 1..Len(candidates) :
       candidates[k].score
         < scoreMatch(candidates[k].match[1], candidates[k].match[2],
                      partnerCounts, opponentCounts, playCounts)

\* the rounds of the result are 1..K, each with 1 to courtCount matches
RoundsConsecutiveAndFull ==
  /\ Rounds = 1..Cardinality(Rounds)
  /\ \A r \in Rounds : Len(RoundOf(r)) \in 1..courtCount

\* C21: a call goes from Initializing to RoundLoop or Finished and from
\* RoundLoop to RoundLoop or Finished; an iteration that appends nothing ends
\* the call; once Finished the call takes no further step (the only step is
\* the caller's next call); an iteration appends at least 1 match, all of the
\* round after the last one; and the rounds of the result are always 1..K,
\* each with 1 to courtCount matches.
C21_DriverStates ==
  [][ /\ state = "Initializing" => state' \in { "RoundLoop", "Finished" }
      /\ state = "RoundLoop" =>
           /\ state' \in { "RoundLoop", "Finished" }
           /\ state' = "RoundLoop" =>
                /\ Len(matches') > Len(matches)
                /\ SubSeq(matches', 1, Len(matches)) = matches
                /\ \A k \in (Len(matches) + 1)..Len(matches') :
                     matches'[k].round = Cardinality(Rounds) + 1
           /\ state' = "Finished" => matches' = matches
      /\ state = "Finished" => (state' = "Initializing" /\ call' # call)
      /\ RoundsConsecutiveAndFull' ]_vars

C21_Witness ==
  /\ state = "Finished"
  /\ call = 1
  /\ courtCount = 2
  /\ Len(teams) = 3
  /\ Len(players) > MinPlayers
  /\ round = 0

\* C22: every call that was started reaches Finished, and the loop index
\* never passes the target, which never passes 50: the loop makes at most
\* R <= 50 iterations.
C22_Total ==
  /\ (state = "Initializing") ~> (state = "Finished")
  /\ [](state = "RoundLoop" =>
          /\ round <= totalRoundsRequested
          /\ totalRoundsRequested <= RoundCeiling)

C22_Witness ==
  /\ state = "Finished"
  /\ round = RoundCeiling
  /\ totalRoundsRequested = RoundCeiling
  /\ Cardinality(Rounds) = RoundCeiling

\* a selection of this call has enumerated its candidates: a round was
\* committed, or the first selection found nothing and ended the call
Enumerated ==
  /\ courtCount >= 1
  /\ \/ state \in { "RoundLoop", "Finished" } /\ round >= 1
     \/ /\ state = "Finished"
        /\ Len(players) >= MinPlayers
        /\ Len(generateAllTeams(players)) > 0

RealIds == { players[k].id : k \in RealPositions }

\* the ways to split a set of 4 ids into two teams
Splits(four) ==
  { { t, four \ t } : t \in { u \in SUBSET four : Cardinality(u) = 2 } }

\* every split of every set of 4 non-Bye players of the roster
AllSplits ==
  UNION { Splits(four) : four \in { q \in SUBSET RealIds : Cardinality(q) = 4 } }

\* the enumerated candidates as unordered pairs of unordered teams
CandidateSet ==
  { { TeamIds(candidates[k].match[1]), TeamIds(candidates[k].match[2]) } :
      k \in 1..Len(candidates) }

\* C23: whenever a selection has enumerated its candidates, they are the
\* splits of the 4-player subsets of the non-Bye players, each once, both
\* teams taken from the team universe: 3 x C(n,4) = n(n-1)(n-2)(n-3)/8 of
\* them, at most n^4/8, none when n < 4; the set depends on the roster only,
\* so it is the same in every round.
C23_CandidateSet ==
  Enumerated =>
    LET n == Eligible
        universe == generateAllTeams(players)
        universeSet == { universe[k] : k \in 1..Len(universe) }
    IN  /\ CandidateSet = AllSplits
        /\ Cardinality(CandidateSet) = Len(candidates)
        /\ 8 * Len(candidates) = n * (n - 1) * (n - 2) * (n - 3)
        /\ 8 * Len(candidates) <= n * n * n * n
        /\ n < 4 => candidates = << >>
        /\ \A k \in 1..Len(candidates) :
             /\ candidates[k].match[1] \in universeSet
             /\ candidates[k].match[2] \in universeSet
             /\ Cardinality(CandidateIds(candidates[k])) = 4

C23_Witness ==
  /\ Enumerated
  /\ state = "RoundLoop"
  /\ round >= 2
  /\ Eligible = 5
  /\ Len(players) > Eligible
  /\ Len(candidates) = 15

\* C24: every iteration of the loop, whatever history the run has reached,
\* gets exactly min(courtCount, floor(n / 4)) matches from the selector, n
\* the number of non-Bye players; with none it ends the call, else it
\* appends them all.
C24_SelectionFillsRound ==
  [][ LoopCondition =>
        /\ Len(matches') - Len(matches) = Min(courtCount, Eligible \div 4)
        /\ state' = "Finished" <=> Min(courtCount, Eligible \div 4) = 0 ]_vars

C24_Witness ==
  /\ RoundCommitted
  /\ round >= 4
  /\ courtCount = 2
  /\ Eligible \div 4 = 2
  /\ Len(RoundOf(round)) = 2
  /\ Len(RoundOf(round - 1)) = 2

\* C25: a finished call has exactly R rounds, R the target for the roster
\* length and the court count, when at least 4 players are not Byes and
\* there is at least 1 court, and no round otherwise; and an iteration ends
\* the call only when nothing was committed before it.
C25_AllRoundsOrNone ==
  /\ [](state = "Finished" =>
          Cardinality(Rounds)
            = IF Eligible >= MinPlayers /\ courtCount >= 1
              THEN TargetR(Len(players), courtCount)
              ELSE 0)
  /\ [][ (LoopCondition /\ state' = "Finished") => (round = 0 /\ matches = << >>) ]_vars

C25_Witness ==
  /\ state = "Finished"
  /\ call = 1
  /\ Eligible = MinPlayers
  /\ Len(players) > MinPlayers + 1
  /\ courtCount = 2
  /\ Cardinality(Rounds) = Len(players)

\* the sum over all players q of the roster of getCount(map, p, q)
SumOfCounts(map, p) ==
  Cardinality(UNION { { << k, v >> : v \in 1..getCount(map, p, players[k]) } :
                        k \in 1..Len(players) })

\* the id sets of the committed matches, in schedule order
CommittedIds == Array([ k \in 1..Len(matches) |-> MatchIds(matches[k]) ])

\* number of the id sets in which all of the given ids occur
TimesIn(idSets, ids) ==
  Cardinality({ k \in 1..Len(idSets) : ids \subseteq idSets[k] })

\* C26: during a run, for every player p the play count is the number of
\* committed matches with p and is the sum of p's partner counts, and the
\* sum of p's opponent counts is twice the play count; for every two
\* different players the partner count plus the opponent count is the
\* number of committed matches with both.
C26_HistoryMatchesSchedule ==
  InRun =>
    LET idSets == CommittedIds
    IN  /\ \A i \in 1..Len(players) :
             /\ getPlays(playCounts, players[i]) = TimesIn(idSets, { players[i].id })
             /\ getPlays(playCounts, players[i])
                  = SumOfCounts(partnerCounts, players[i])
             /\ 2 * getPlays(playCounts, players[i])
                  = SumOfCounts(opponentCounts, players[i])
        /\ \A i, j \in 1..Len(players) :
             i # j =>
               getCount(partnerCounts, players[i], players[j])
                 + getCount(opponentCounts, players[i], players[j])
                   = TimesIn(idSets, { players[i].id, players[j].id })

C26_Witness ==
  /\ RoundCommitted
  /\ \E i, j \in 1..Len(players) :
       /\ getPlays(playCounts, players[i]) >= 4
       /\ getCount(partnerCounts, players[i], players[j]) >= 2
       /\ getCount(opponentCounts, players[i], players[j]) >= 2
       /\ TimesIn(CommittedIds, { players[i].id, players[j].id })
            < getPlays(playCounts, players[i])

\* same round, same court, same four players
SameMatch(a, b) ==
  a.round = b.round /\ a.court = b.court /\ MatchIds(a) = MatchIds(b)

\* C27 (as stated): every score the page shows against a match of the
\* displayed schedule was entered while that same match was displayed under
\* the id.
C27_ScoreShownWithItsMatch ==
  \A k \in 1..Len(schedule) :
    schedule[k].id \in DOMAIN scores =>
      /\ scores[schedule[k].id].teamA # NoScore =>
           SameMatch(enteredFor[schedule[k].id].teamA[1], schedule[k])
      /\ scores[schedule[k].id].teamB # NoScore =>
           SameMatch(enteredFor[schedule[k].id].teamB[1], schedule[k])

====
